---- MODULE Spec2Model ----
(***************************************************************************)
(* A model of panflute/elements.py: the element classes with their         *)
(* construction-time validation, the encoder to_json / metawalk, the       *)
(* decoder from_json (used as json's object_pairs_hook) and                *)
(* Doc.get_metadata.                                                       *)
(*                                                                         *)
(* Every Python value is a record [ty |-> <type name>, v |-> <payload>].   *)
(* An element is [ty |-> <class name>, v |-> <record of its slots>].       *)
(* A call that raises yields [ty |-> "raise", v |-> <<exception, where>>]  *)
(* and every caller passes the first raise of its operands on, as Python   *)
(* propagates an uncaught exception.                                       *)
(***************************************************************************)
EXTENDS Integers, Sequences, FiniteSets, TLC

VARIABLES op, arg, ret

vars == <<op, arg, ret>>

-----------------------------------------------------------------------------
(* Python values *)

PyStr(s) == [ty |-> "str", v |-> s]
PyInt(n) == [ty |-> "int", v |-> n]
PyBool(b) == [ty |-> "bool", v |-> b]
\* a float with an integral value n
PyFloat(n) == [ty |-> "float", v |-> n]
PyNone == [ty |-> "NoneType", v |-> "None"]
PyList(s) == [ty |-> "list", v |-> s]
PyTuple(s) == [ty |-> "tuple", v |-> s]
\* an ordered mapping: v is the sequence of its <<key, value>> entries
OrderedDictOfPairs(ps) == [ty |-> "OrderedDict", v |-> ps]
PyDict(ps) == [ty |-> "dict", v |-> ps]
\* a zero-argument callable returning r, and a class object
PyFunction(r) == [ty |-> "function", v |-> r]
PyClass(name) == [ty |-> "type", v |-> name]
Node(cls, slots) == [ty |-> cls, v |-> slots]
Raise(exc, where) == [ty |-> "raise", v |-> <<exc, where>>]

IsRaise(x) == x.ty = "raise"
AnyRaise(xs) == \E i \in 1..Len(xs) : IsRaise(xs[i])
FirstRaise(xs) ==
    xs[CHOOSE i \in 1..Len(xs) :
          IsRaise(xs[i]) /\ \A j \in 1..(i - 1) : ~IsRaise(xs[j])]
\* the value of an expression whose operands xs are evaluated left to right
Eval(xs, result) == IF AnyRaise(xs) THEN FirstRaise(xs) ELSE result

-----------------------------------------------------------------------------
(* Constants *)

LIST_NUMBER_STYLES ==
    {"DefaultStyle", "Example", "Decimal", "LowerRoman",
     "UpperRoman", "LowerAlpha", "UpperAlpha"}
LIST_NUMBER_DELIMITERS == {"DefaultDelim", "Period", "OneParen", "TwoParens"}
TABLE_ALIGNMENT == {"AlignLeft", "AlignRight", "AlignCenter", "AlignDefault"}
QUOTE_TYPES == {"SingleQuote", "DoubleQuote"}
CITATION_MODE == {"AuthorInText", "SuppressAuthor", "NormalCitation"}
MATH_FORMATS == {"DisplayMath", "InlineMath"}
RAW_FORMATS == {"html", "tex", "latex"}
\* the union without the citation modes
SPECIAL_ELEMENTS_but_modes ==
    LIST_NUMBER_STYLES \cup LIST_NUMBER_DELIMITERS \cup
    MATH_FORMATS \cup TABLE_ALIGNMENT \cup QUOTE_TYPES
SPECIAL_ELEMENTS ==
    LIST_NUMBER_STYLES \cup LIST_NUMBER_DELIMITERS \cup
    MATH_FORMATS \cup TABLE_ALIGNMENT \cup QUOTE_TYPES \cup CITATION_MODE

\* class Block(Element) and class Inline(Element): the subclasses of each
BlockClasses ==
    {"Null", "HorizontalRule", "Plain", "Para", "BlockQuote", "Header", "Div",
     "CodeBlock", "RawBlock", "BulletList", "OrderedList", "DefinitionList",
     "Table"}
InlineClasses ==
    {"Space", "SoftBreak", "LineBreak", "Emph", "Strong", "Strikeout",
     "Superscript", "Subscript", "SmallCaps", "Note", "Span", "Quoted", "Cite",
     "Link", "Image", "Str", "Code", "Math", "RawInline"}
\* class Citation(Element), MetaInlines(Element), MetaBlocks(Element)
OtherElementClasses == {"Citation", "MetaInlines", "MetaBlocks"}
ElementClasses == BlockClasses \cup InlineClasses \cup OtherElementClasses

-----------------------------------------------------------------------------
(* Python built-ins the code relies on *)

\* the characters the model's iterated strings are written in
Alphabet == {"a", "b", "."}

RECURSIVE Concat(_)
Concat(cs) == IF cs = <<>> THEN "" ELSE Head(cs) \o Concat(Tail(cs))

\* the characters of a string, in order
Chars(s) == CHOOSE cs \in [1..Len(s) -> Alphabet] : Concat(cs) = s

\* isinstance(x, str), isinstance(x, dict), isinstance(x, Block / Inline)
IsStr(x) == x.ty = "str"
IsDict(x) == x.ty \in {"dict", "OrderedDict"}
IsBlock(x) == x.ty \in BlockClasses
IsInline(x) == x.ty \in InlineClasses
IsElement(x) == x.ty \in ElementClasses
IsNumber(x) == x.ty \in {"int", "bool", "float"}
NumberOf(x) == IF x.ty = "bool" THEN (IF x.v THEN 1 ELSE 0) ELSE x.v

\* bool(x): the truth value of x
Truthy(x) ==
    CASE x.ty = "NoneType" -> FALSE
      [] x.ty = "bool" -> x.v
      [] x.ty \in {"int", "float"} -> x.v # 0
      [] x.ty = "str" -> x.v # ""
      [] x.ty \in {"list", "tuple", "dict", "OrderedDict"} -> x.v # <<>>
      [] OTHER -> TRUE

\* x == y: numbers by value (True == 1), containers by content, elements
\* (which define no __eq__) by their structure, standing for identity
PyEq(x, y) ==
    IF IsNumber(x) /\ IsNumber(y) THEN NumberOf(x) = NumberOf(y)
    ELSE IF IsDict(x) /\ IsDict(y) THEN x.v = y.v
    ELSE x = y

\* len(x)
PyLen(x) ==
    CASE x.ty \in {"list", "tuple", "dict", "OrderedDict"} -> PyInt(Len(x.v))
      [] x.ty = "str" -> PyInt(Len(x.v))
      [] x.ty = "raise" -> x
      [] OTHER -> Raise("TypeError", "len")

\* list(x): the elements a for loop or a * unpacking draws from x, as a list
Iter(x) ==
    CASE x.ty \in {"list", "tuple"} -> PyList(x.v)
      [] x.ty \in {"dict", "OrderedDict"} ->
            PyList([i \in 1..Len(x.v) |-> x.v[i][1]])
      [] x.ty = "str" -> PyList([i \in 1..Len(x.v) |-> PyStr(Chars(x.v)[i])])
      [] x.ty = "raise" -> x
      [] OTHER -> Raise("TypeError", "iter")

\* x[i] for a 0-based integer index i
Item(x, i) ==
    CASE x.ty \in {"list", "tuple"} ->
            IF i < Len(x.v) THEN x.v[i + 1] ELSE Raise("IndexError", "getitem")
      [] x.ty = "str" ->
            IF i < Len(x.v) THEN PyStr(Chars(x.v)[i + 1])
            ELSE Raise("IndexError", "getitem")
      [] x.ty \in {"dict", "OrderedDict"} ->
            IF \E j \in 1..Len(x.v) : PyEq(x.v[j][1], PyInt(i))
            THEN x.v[CHOOSE j \in 1..Len(x.v) : PyEq(x.v[j][1], PyInt(i))][2]
            ELSE Raise("KeyError", "getitem")
      [] x.ty = "raise" -> x
      [] OTHER -> Raise("TypeError", "getitem")

\* whether x can be hashed (a set member, a dict key)
Hashable(x) == x.ty \notin {"list", "dict", "OrderedDict"}

\* callable(x)
callable(x) == x.ty \in {"function", "type"}

PySet(S) == [ty |-> "set", v |-> S]

\* whether string k occurs in string s as a contiguous run of characters
StrContains(s, k) ==
    \E i \in 0..(Len(s) - Len(k)) :
        SubSeq(Chars(s), i + 1, i + Len(k)) = Chars(k)

\* x in c: a BOOLEAN, or the exception the membership test raises
PyIn(x, c) ==
    CASE c.ty = "set" ->
            IF Hashable(x) THEN PyBool(\E e \in c.v : PyEq(e, x))
            ELSE Raise("TypeError", "hash")
      [] c.ty \in {"dict", "OrderedDict"} ->
            IF Hashable(x)
            THEN PyBool(\E i \in 1..Len(c.v) : PyEq(c.v[i][1], x))
            ELSE Raise("TypeError", "hash")
      [] c.ty \in {"list", "tuple"} ->
            PyBool(\E i \in 1..Len(c.v) : PyEq(c.v[i], x))
      [] c.ty = "str" ->
            IF IsStr(x) THEN PyBool(StrContains(c.v, x.v))
            ELSE Raise("TypeError", "contains")
      [] c.ty = "raise" -> c
      [] OTHER -> Raise("TypeError", "contains")

\* m[k] for a key k
Lookup(m, k) ==
    CASE m.ty \in {"dict", "OrderedDict"} ->
            IF \E i \in 1..Len(m.v) : PyEq(m.v[i][1], k)
            THEN m.v[CHOOSE i \in 1..Len(m.v) : PyEq(m.v[i][1], k)][2]
            ELSE Raise("KeyError", "getitem")
      [] m.ty \in {"list", "tuple", "str"} ->
            IF IsNumber(k) THEN Item(m, NumberOf(k))
            ELSE Raise("TypeError", "getitem")
      [] m.ty = "raise" -> m
      [] OTHER -> Raise("TypeError", "getitem")

StrSet(S) == PySet({PyStr(s) : s \in S})

-----------------------------------------------------------------------------
(* Aux Functions - Initialize *)

\* validate with its assertions left out
validate_unasserted(x, group, instance) == x

\* validate(x, group=..., instance=...): group is a container or None,
\* instance the name of a type
validate(x, group, instance) ==
    IF group # PyNone
    THEN LET m == PyIn(x, group) IN
         IF IsRaise(m) THEN m
         ELSE IF m.v THEN x ELSE Raise("AssertionError", "validate")
    ELSE IF x.ty = instance THEN x ELSE Raise("AssertionError", "validate")

\* the zero-argument call x() of a class object; defined with the classes
RECURSIVE Instantiate(_)

\* x(): a function returns its result, a class builds an instance
Call0(x) == IF x.ty = "function" THEN x.v ELSE Instantiate(x.v)

\* assert isinstance(x, Block if has_blocks else Inline); return x
AssertKind(x, has_blocks) ==
    IF IsRaise(x) THEN x
    ELSE IF (IF has_blocks THEN IsBlock(x) ELSE IsInline(x)) THEN x
    ELSE Raise("AssertionError", "validate_item")

\* x = x() if callable(x) else x, and no assertion after it
validate_item_unasserted(x, has_blocks, obj) ==
    IF callable(x) THEN Call0(x) ELSE x

validate_item(x, has_blocks, obj) ==
    AssertKind(IF callable(x) THEN Call0(x) ELSE x, has_blocks)

\* the value of a list comprehension whose elements evaluate to rs
Listed(rs) == Eval(rs, PyList(rs))

\* the nested list comprehension of init_items, depth levels deep
RECURSIVE init_items_at(_, _, _, _)
init_items_at(obj, args, has_blocks, depth) ==
    Listed([i \in 1..Len(args) |->
              IF depth = 1 THEN validate_item(args[i], has_blocks, obj)
              ELSE LET it == Iter(args[i]) IN
                   IF IsRaise(it) THEN it
                   ELSE init_items_at(obj, it.v, has_blocks, depth - 1)])

\* init_items(obj, args, has_blocks, depth): args is a Python iterable
init_items(obj, args, has_blocks, depth) ==
    IF depth \notin {1, 2, 3} THEN Raise("AssertionError", "init_items")
    ELSE LET it == Iter(args) IN
         IF IsRaise(it) THEN it
         ELSE init_items_at(obj, it.v, has_blocks, depth)

\* the call as it would read with the items passed for args as well
init_items_with_args(x, has_blocks, depth) ==
    init_items(x, x, has_blocks, depth)

\* init_items(x, has_blocks=..., depth=...): the call that passes the items
\* as obj and nothing for the required parameter args
init_items_without_args(x, has_blocks, depth) ==
    Raise("TypeError", "init_items")

\* the attribute bundle init_ica sets on self, or the failed assertion
init_ica(identifier, classes, attributes) ==
    LET cl == IF Truthy(classes) THEN classes ELSE PyList(<<>>)
        at == IF Truthy(attributes) THEN attributes
              ELSE OrderedDictOfPairs(<<>>)
        it == Iter(cl)
    IN  IF ~IsStr(identifier) THEN Raise("AssertionError", "init_ica")
        ELSE IF ~IsDict(at) THEN Raise("AssertionError", "init_ica")
        ELSE IF IsRaise(it) THEN it
        ELSE IF \E i \in 1..Len(it.v) : ~IsStr(it.v[i])
             THEN Raise("AssertionError", "init_ica")
        ELSE [ty |-> "ica",
              v |-> [identifier |-> identifier, classes |-> cl,
                     attributes |-> at]]

\* int(x) == x for the start of a list
IntegerValued(x) ==
    CASE IsNumber(x) -> PyBool(TRUE)
      [] x.ty = "str" -> Raise("ValueError", "int")
      [] OTHER -> Raise("TypeError", "int")

init_ssd(start, style, delimiter) ==
    LET iv == IntegerValued(start)
        st == PyIn(style, StrSet(LIST_NUMBER_STYLES))
        de == PyIn(delimiter, StrSet(LIST_NUMBER_DELIMITERS))
    IN  IF IsRaise(iv) THEN iv
        ELSE IF ~(0 <= NumberOf(start)) THEN Raise("AssertionError", "init_ssd")
        ELSE IF IsRaise(st) THEN st
        ELSE IF ~st.v THEN Raise("AssertionError", "init_ssd")
        ELSE IF IsRaise(de) THEN de
        ELSE IF ~de.v THEN Raise("AssertionError", "init_ssd")
        ELSE [ty |-> "ssd",
              v |-> [start |-> start, style |-> style,
                     delimiter |-> delimiter]]

init_ut(url, title) ==
    LET u == validate(url, PyNone, "str")
        t == validate(title, PyNone, "str")
    IN  Eval(<<u, t>>, [ty |-> "ut", v |-> [url |-> u, title |-> t]])

-----------------------------------------------------------------------------
(* Classes.  A constructor takes args, the tuple of its positional         *)
(* arguments, and its keyword arguments, and returns the element or the    *)
(* exception __init__ raises.  The values __init__ computes are handed to  *)
(* the operator that assembles self, which lists them in the order the     *)
(* statements of __init__ run: the first of them that raised is what the   *)
(* constructor raises.                                                     *)

NoSlots == <<>>

\* Null, Space, HorizontalRule, SoftBreak, LineBreak define no __init__
Leaf(cls) == Node(cls, NoSlots)

\* the classes whose __init__(self, *args) is
\* self.items = init_items(type(self), args, has_blocks=..., depth=...)
ItemsClasses ==
    {"Plain", "Para", "BlockQuote", "Emph", "Strong", "Strikeout",
     "Superscript", "Subscript", "SmallCaps", "Note", "BulletList",
     "MetaInlines", "MetaBlocks"}
\* the has_blocks and the depth each of them passes
HasBlocks(cls) == cls \in {"BlockQuote", "Note", "BulletList", "MetaBlocks"}
Depth(cls) == IF cls = "BulletList" THEN 2 ELSE 1

ItemsSelf(cls, items) == Eval(<<items>>, Node(cls, [items |-> items]))
ItemsOnly(cls, args) ==
    ItemsSelf(cls, init_items(cls, args, HasBlocks(cls), Depth(cls)))

HeaderSelf(level, ica, items) ==
    Eval(<<level, ica, items>>,
         Node("Header",
              [level |-> level, items |-> items,
               identifier |-> ica.v.identifier, classes |-> ica.v.classes,
               attributes |-> ica.v.attributes]))
Header(args, level, identifier, classes, attributes) ==
    HeaderSelf(validate(level, PyTuple([i \in 1..6 |-> PyInt(i)]), PyNone),
               init_ica(identifier, classes, attributes),
               init_items("Header", args, FALSE, 1))

\* Div and Span: init_ica, then init_items
IcaItemsSelf(cls, ica, items) ==
    Eval(<<ica, items>>,
         Node(cls,
              [items |-> items,
               identifier |-> ica.v.identifier, classes |-> ica.v.classes,
               attributes |-> ica.v.attributes]))
IcaItems(cls, args, identifier, classes, attributes) ==
    IcaItemsSelf(cls, init_ica(identifier, classes, attributes),
                 init_items(cls, args, cls = "Div", 1))

QuotedSelf(quote_type, items) ==
    Eval(<<quote_type, items>>,
         Node("Quoted", [quote_type |-> quote_type, items |-> items]))
Quoted(args, quote_type) ==
    QuotedSelf(validate(quote_type, StrSet(QUOTE_TYPES), PyNone),
               init_items("Quoted", args, FALSE, 1))

Citation(citationHash, citationId, citationMode, citationNoteNum, citationPrefix, citationSuffix) ==
    LET mode == validate(citationMode, StrSet(CITATION_MODE), PyNone)
        prefix == init_items_without_args(citationPrefix, FALSE, 1)
        suffix == init_items_without_args(citationSuffix, FALSE, 1)
    IN  Eval(<<mode, prefix, suffix>>,
             Node("Citation",
                  [citationHash |-> citationHash, citationId |-> citationId,
                   citationMode |-> mode, citationNoteNum |-> citationNoteNum,
                   citationPrefix |-> prefix, citationSuffix |-> suffix]))

CitationFields ==
    {"citationHash", "citationId", "citationMode", "citationNoteNum",
     "citationPrefix", "citationSuffix"}

\* dict(c): the mapping built from an iterable of key/value pairs
RECURSIVE Put(_, _, _)
Put(ps, k, val) ==
    IF ps = <<>> THEN << <<k, val>> >>
    ELSE IF PyEq(Head(ps)[1], k) THEN << <<k, val>> >> \o Tail(ps)
    ELSE <<Head(ps)>> \o Put(Tail(ps), k, val)
RECURSIVE PutAll(_, _)
PutAll(ps, es) ==
    IF es = <<>> THEN ps
    ELSE PutAll(Put(ps, es[1].v[1], es[1].v[2]), Tail(es))
PairsOf(c) ==
    IF IsDict(c) THEN PyDict(c.v)
    ELSE LET it == Iter(c) IN
         IF IsRaise(it) THEN it
         ELSE IF \E i \in 1..Len(it.v) : it.v[i].ty \notin {"list", "tuple"}
              THEN Raise("TypeError", "dict")
         ELSE IF \E i \in 1..Len(it.v) : Len(it.v[i].v) # 2
              THEN Raise("ValueError", "dict")
         ELSE IF \E i \in 1..Len(it.v) : ~Hashable(it.v[i].v[1])
              THEN Raise("TypeError", "hash")
         ELSE PyDict(PutAll(<<>>, it.v))
dict(c) == PairsOf(c)
OrderedDict(c) ==
    LET d == PairsOf(c) IN
    IF IsRaise(d) THEN d ELSE OrderedDictOfPairs(d.v)

\* Citation(**dict(c))
CitationOf(c) ==
    LET d == dict(c) IN
    IF IsRaise(d) THEN d
    ELSE IF \E i \in 1..Len(d.v) : ~IsStr(d.v[i][1])
         THEN Raise("TypeError", "Citation")
    ELSE IF {d.v[i][1].v : i \in 1..Len(d.v)} # CitationFields
         THEN Raise("TypeError", "Citation")
    ELSE Citation(Lookup(d, PyStr("citationHash")),
                  Lookup(d, PyStr("citationId")),
                  Lookup(d, PyStr("citationMode")),
                  Lookup(d, PyStr("citationNoteNum")),
                  Lookup(d, PyStr("citationPrefix")),
                  Lookup(d, PyStr("citationSuffix")))

\* [Citation(**dict(c)) for c in citations]
Citations(citations) ==
    LET cs == Iter(citations) IN
    IF IsRaise(cs) THEN cs
    ELSE Listed([i \in 1..Len(cs.v) |-> CitationOf(cs.v[i])])

CiteSelf(citations, items) ==
    Eval(<<citations, items>>,
         Node("Cite", [citations |-> citations, items |-> items]))
Cite(args, citations) ==
    CiteSelf(Citations(citations), init_items("Cite", args, FALSE, 1))

\* Link and Image: init_items, then init_ut, then init_ica
TargetSelf(cls, items, ut, ica) ==
    Eval(<<items, ut, ica>>,
         Node(cls,
              [items |-> items, url |-> ut.v.url, title |-> ut.v.title,
               identifier |-> ica.v.identifier, classes |-> ica.v.classes,
               attributes |-> ica.v.attributes]))
Target(cls, args, url, title, identifier, classes, attributes) ==
    TargetSelf(cls, init_items(cls, args, FALSE, 1), init_ut(url, title),
               init_ica(identifier, classes, attributes))

Str(text) ==
    LET t == validate(text, PyNone, "str") IN
    Eval(<<t>>, Node("Str", [text |-> t]))

\* CodeBlock and Code: validate(text), then init_ica
IcaText(cls, text, identifier, classes, attributes) ==
    LET t == validate(text, PyNone, "str")
        ica == init_ica(identifier, classes, attributes)
    IN  Eval(<<t, ica>>,
             Node(cls,
                  [text |-> t,
                   identifier |-> ica.v.identifier, classes |-> ica.v.classes,
                   attributes |-> ica.v.attributes]))

\* the group of formats a class with a text and a format validates against
Formats(cls) == IF cls = "Math" THEN MATH_FORMATS ELSE RAW_FORMATS

\* RawBlock, RawInline and Math: validate(text), then validate(format)
TextFormat(cls, text, format) ==
    LET t == validate(text, PyNone, "str")
        f == validate(format, StrSet(Formats(cls)), PyNone)
    IN  Eval(<<t, f>>, Node(cls, [text |-> t, format |-> f]))

OrderedListSelf(items, ssd) ==
    Eval(<<items, ssd>>,
         Node("OrderedList",
              [items |-> items, start |-> ssd.v.start,
               style |-> ssd.v.style, delimiter |-> ssd.v.delimiter]))
OrderedList(args, start, style, delimiter) ==
    OrderedListSelf(init_items("OrderedList", args, TRUE, 2),
                    init_ssd(start, style, delimiter))

\* for k, v in args: each element unpacks into exactly two values
DefinitionList(args) ==
    LET rs == [i \in 1..Len(args.v) |->
                 LET kv == Iter(args.v[i]) IN
                 IF IsRaise(kv) THEN kv
                 ELSE IF Len(kv.v) # 2 THEN Raise("ValueError", "unpack")
                 ELSE LET k == init_items_without_args(kv.v[1], FALSE, 1)
                          d == init_items_without_args(kv.v[2], TRUE, 2)
                      IN  Eval(<<k, d>>, PyTuple(<<k, d>>))]
    IN  Eval(rs, Node("DefinitionList", [items |-> PyList(rs)]))

\* assert all(item in TABLE_ALIGNMENT for item in alignment)
\* assert all(item >= 0 for item in width)
AllOf(xs, test(_)) ==
    LET it == Iter(xs) IN
    IF IsRaise(it) THEN it
    ELSE LET rs == [i \in 1..Len(it.v) |-> test(it.v[i])]
             stop == {i \in 1..Len(rs) : IsRaise(rs[i]) \/ ~rs[i].v}
         IN  IF stop = {} THEN PyBool(TRUE)
             ELSE LET i == CHOOSE j \in stop : \A k \in stop : j <= k IN
                  IF IsRaise(rs[i]) THEN rs[i] ELSE PyBool(FALSE)
Asserted(b, where) ==
    IF IsRaise(b) THEN b
    ELSE IF b.v THEN b ELSE Raise("AssertionError", where)
InAlignment(x) == PyIn(x, StrSet(TABLE_ALIGNMENT))
NonNegative(x) ==
    IF IsNumber(x) THEN PyBool(NumberOf(x) >= 0)
    ELSE Raise("TypeError", "compare")
Repeat(x, n) == PyList([i \in 1..n |-> x])

\* Table.__init__ from self.rows = len(self.items) on
TableSelf(items, header, caption, alignment, width) ==
    LET rows == PyLen(items)
        cols == PyLen(Item(items, 0))
        hdr == init_items_without_args(header, TRUE, 2)
        hlen == PyLen(header)
        hok == Eval(<<cols, hlen>>,
                    Asserted(PyBool(hlen.v = cols.v), "Table"))
        cap == init_items_without_args(caption, FALSE, 1)
        al == IF alignment = PyNone
              THEN Repeat(PyStr("AlignDefault"), cols.v)
              ELSE alignment
        alok == Asserted(AllOf(alignment, InAlignment), "Table")
        wd == IF width = PyNone THEN Repeat(PyFloat(0), cols.v) ELSE width
        wdok == Asserted(AllOf(width, NonNegative), "Table")
    IN  Eval(<<items, rows, cols, hdr, hok, cap, alok, wdok>>,
             Node("Table",
                  [items |-> items, header |-> hdr, caption |-> cap,
                   alignment |-> al, width |-> wd, rows |-> rows,
                   cols |-> cols]))
Table(args, header, caption, alignment, width) ==
    TableSelf(init_items("Table", args, TRUE, 3), header, caption, alignment,
              width)

\* class Doc: assert type(metadata) == OrderedDict
Doc(metadata, items, format) ==
    IF metadata.ty # "OrderedDict" THEN Raise("AssertionError", "Doc")
    ELSE Node("Doc", [metadata |-> metadata, items |-> items,
                      format |-> format])

NoArgs == PyTuple(<<>>)

\* cls(): the class called with no argument, parameters at their defaults,
\* a TypeError where a required parameter is missing
Instantiate(cls) ==
    CASE cls \in {"Null", "Space", "HorizontalRule", "SoftBreak", "LineBreak"}
            -> Leaf(cls)
      [] cls \in ItemsClasses -> ItemsOnly(cls, NoArgs)
      [] cls = "Header" -> Header(NoArgs, PyInt(1), PyStr(""), PyNone, PyNone)
      [] cls \in {"Div", "Span"} ->
            IcaItems(cls, NoArgs, PyStr(""), PyNone, PyNone)
      [] cls = "Quoted" -> Quoted(NoArgs, PyStr("DoubleQuote"))
      [] cls = "OrderedList" ->
            OrderedList(NoArgs, PyInt(1), PyStr("Decimal"), PyStr("Period"))
      [] cls = "DefinitionList" -> DefinitionList(NoArgs)
      [] cls = "Table" -> Table(NoArgs, PyNone, PyNone, PyNone, PyNone)
      [] OTHER -> Raise("TypeError", "__init__")

-----------------------------------------------------------------------------
(* Main JSON Functions: the encoder *)

encode_dict(tag, content) ==
    OrderedDictOfPairs(<< <<PyStr("t"), tag>>, <<PyStr("c"), content>> >>)

\* encode_dict(tag, content) once content has been evaluated
Encoded(tag, content) == Eval(<<content>>, encode_dict(tag, content))

\* [f(x) for x in xs], xs a sequence
ListOf(xs, f(_)) == Listed([i \in 1..Len(xs) |-> f(xs[i])])

encode_ica(self) ==
    PyList(<<self.v.identifier, self.v.classes,
             PyList([i \in 1..Len(self.v.attributes.v) |->
                       PyTuple(<<self.v.attributes.v[i][1],
                                 self.v.attributes.v[i][2]>>)])>>)

RECURSIVE to_json(_)
RECURSIVE metawalk(_)

\* [to_json(x) for x in xs], xs a Python list
JsonList(xs) == ListOf(xs.v, to_json)
\* [[to_json(x) for x in row] for row in xs]
JsonRows(xs) == ListOf(xs.v, JsonList)
\* (term, definitions) of a definition list
JsonPair(kv) ==
    LET k == JsonList(kv.v[1])
        d == JsonRows(kv.v[2])
    IN  Eval(<<k, d>>, PyList(<<k, d>>))

encode_items(self) ==
    CASE self.ty \in {"BulletList", "OrderedList"} -> JsonRows(self.v.items)
      [] self.ty = "DefinitionList" -> ListOf(self.v.items.v, JsonPair)
      [] self.ty = "Table" -> ListOf(self.v.items.v, JsonRows)
      [] OTHER -> JsonList(self.v.items)

EnumDict(x) == encode_dict(x, PyList(<<>>))

\* Citation.encode_content
CitationContent(self) ==
    LET suffix == JsonList(self.v.citationSuffix)
        prefix == JsonList(self.v.citationPrefix)
    IN  Eval(<<suffix, prefix>>,
             OrderedDictOfPairs(
                <<<<PyStr("citationSuffix"), suffix>>,
                  <<PyStr("citationNoteNum"), self.v.citationNoteNum>>,
                  <<PyStr("citationMode"), EnumDict(self.v.citationMode)>>,
                  <<PyStr("citationPrefix"), prefix>>,
                  <<PyStr("citationId"), self.v.citationId>>,
                  <<PyStr("citationHash"), self.v.citationHash>>>>))

\* Table.encode_content, items being encode_items(self)
TableContent(self, items) ==
    LET caption == JsonList(self.v.caption)
        alignment == ListOf(self.v.alignment.v, EnumDict)
        header == JsonRows(self.v.header)
    IN  Eval(<<caption, alignment, header, items>>,
             PyList(<<caption, alignment, self.v.width, header, items>>))

\* Cite.encode_content, items being encode_items(self)
CiteContent(self, items) ==
    LET cits == ListOf(self.v.citations.v, CitationContent) IN
    Eval(<<cits, items>>, PyList(<<cits, items>>))

\* self.encode_content() of a class that has items, items being
\* encode_items(self)
ContentWith(self, items) ==
    LET c == self.ty IN
    CASE c \in ItemsClasses \cup {"DefinitionList"} -> items
      [] c = "Header" ->
            Eval(<<items>>, PyList(<<self.v.level, encode_ica(self), items>>))
      [] c \in {"Div", "Span"} ->
            Eval(<<items>>, PyList(<<encode_ica(self), items>>))
      [] c = "Quoted" ->
            Eval(<<items>>, PyList(<<EnumDict(self.v.quote_type), items>>))
      [] c = "Cite" -> CiteContent(self, items)
      [] c \in {"Link", "Image"} ->
            Eval(<<items>>,
                 PyList(<<encode_ica(self), items,
                          PyList(<<self.v.url, self.v.title>>)>>))
      [] c = "OrderedList" ->
            Eval(<<items>>,
                 PyList(<<PyList(<<self.v.start, EnumDict(self.v.style),
                                   EnumDict(self.v.delimiter)>>), items>>))
      [] c = "Table" -> TableContent(self, items)

\* self.encode_content() of each class
encode_content(self) ==
    LET c == self.ty IN
    CASE c \in {"Null", "Space", "HorizontalRule", "SoftBreak", "LineBreak"}
            -> PyList(<<>>)
      [] c = "Citation" -> CitationContent(self)
      [] c = "Str" -> self.v.text
      [] c \in {"CodeBlock", "Code"} ->
            PyList(<<encode_ica(self), self.v.text>>)
      [] c \in {"RawBlock", "RawInline"} ->
            PyList(<<self.v.format, self.v.text>>)
      [] c = "Math" -> PyList(<<EnumDict(self.v.format), self.v.text>>)
      [] OTHER -> ContentWith(self, encode_items(self))

\* OrderedDict((k, metawalk(v)) for k, v in m.items())
MetaItems(m) ==
    LET rs == [i \in 1..Len(m.v) |-> metawalk(m.v[i][2])] IN
    Eval(rs, OrderedDictOfPairs([i \in 1..Len(m.v) |-> <<m.v[i][1], rs[i]>>]))

metawalk(e) ==
    CASE e.ty \notin {"str", "list", "bool", "MetaInlines", "MetaBlocks",
                      "OrderedDict"} -> Raise("AssertionError", "metawalk")
      [] e.ty = "str" -> e
      [] e.ty \in {"MetaInlines", "MetaBlocks"} -> to_json(e)
      [] e.ty = "list" -> Encoded(PyStr("MetaList"), ListOf(e.v, metawalk))
      [] e.ty = "OrderedDict" -> Encoded(PyStr("MetaMap"), MetaItems(e))
      [] e.ty = "bool" -> encode_dict(PyStr("MetaBool"), e)

\* [{'unMeta': meta}, element.items]
DocJson(meta, items) ==
    Eval(<<meta>>, PyList(<<PyDict(<< <<PyStr("unMeta"), meta>> >>), items>>))

to_json(element) ==
    IF element.ty = "Doc"
    THEN DocJson(MetaItems(element.v.metadata), element.v.items)
    ELSE IF ~IsElement(element) THEN Raise("AttributeError", "to_json")
    ELSE Encoded(PyStr(element.ty), encode_content(element))

-----------------------------------------------------------------------------
(* Main JSON Functions: the decoder *)

\* *c: the positional arguments a call draws from c
Star(c) == LET it == Iter(c) IN IF IsRaise(it) THEN it ELSE PyTuple(it.v)

\* c[i][j]
Item2(c, i, j) == LET x == Item(c, i) IN IF IsRaise(x) THEN x ELSE Item(x, j)

\* the input handed back as it came
unknown_tag_passed(tag, c) ==
    PyList(<<PyTuple(<<PyStr("t"), PyStr(tag)>>),
             PyTuple(<<PyStr("c"), c>>)>>)

\* the final else of from_json: raise Exception('unknown tag ' + tag)
unknown_tag(tag, c) == Raise("Exception", "unknown tag")

\* the chain of elif tag == ... in from_json, for a tag that is a string;
\* the argument expressions of a call are evaluated first, then the
\* constructor runs
Dispatch(tag, c) ==
    CASE tag \in {"Null", "Space", "HorizontalRule", "SoftBreak", "LineBreak"}
            -> Leaf(tag)
      [] tag \in ItemsClasses ->
            LET a == Star(c) IN Eval(<<a>>, ItemsOnly(tag, a))
      [] tag = "Header" ->
            LET a == Star(Item(c, 2))
                level == Item(c, 0)
                id == Item2(c, 1, 0)
                cl == Item2(c, 1, 1)
                at == Item2(c, 1, 2)
            IN  Eval(<<a, level, id, cl, at>>, Header(a, level, id, cl, at))
      [] tag \in {"Div", "Span"} ->
            LET a == Star(Item(c, 1))
                id == Item2(c, 0, 0)
                cl == Item2(c, 0, 1)
                at == Item2(c, 0, 2)
            IN  Eval(<<a, id, cl, at>>, IcaItems(tag, a, id, cl, at))
      [] tag = "Quoted" ->
            LET a == Star(Item(c, 1))
                qt == Item(c, 0)
            IN  Eval(<<a, qt>>, Quoted(a, qt))
      [] tag = "Cite" ->
            LET a == Star(Item(c, 1))
                cits == Item(c, 0)
            IN  Eval(<<a, cits>>, Cite(a, cits))
      [] tag \in {"Link", "Image"} ->
            LET a == Star(Item(c, 1))
                url == Item2(c, 2, 0)
                title == Item2(c, 2, 1)
                id == Item2(c, 0, 0)
                cl == Item2(c, 0, 1)
                at == Item2(c, 0, 2)
            IN  Eval(<<a, url, title, id, cl, at>>,
                     Target(tag, a, url, title, id, cl, at))
      [] tag = "Str" -> Str(c)
      [] tag \in {"CodeBlock", "Code"} ->
            LET text == Item(c, 1)
                id == Item2(c, 0, 0)
                cl == Item2(c, 0, 1)
                at == Item2(c, 0, 2)
            IN  Eval(<<text, id, cl, at>>, IcaText(tag, text, id, cl, at))
      [] tag \in {"RawBlock", "RawInline", "Math"} ->
            LET text == Item(c, 1)
                format == Item(c, 0)
            IN  Eval(<<text, format>>, TextFormat(tag, text, format))
      [] tag = "OrderedList" ->
            LET a == Star(Item(c, 1))
                start == Item2(c, 0, 0)
                style == Item2(c, 0, 1)
                delimiter == Item2(c, 0, 2)
            IN  Eval(<<a, start, style, delimiter>>,
                     OrderedList(a, start, style, delimiter))
      [] tag = "DefinitionList" ->
            LET a == Star(c) IN Eval(<<a>>, DefinitionList(a))
      [] tag = "Table" ->
            LET a == Star(Item(c, 4))
                caption == Item(c, 0)
                alignment == Item(c, 1)
                width == Item(c, 2)
                header == Item(c, 3)
            IN  Eval(<<a, caption, alignment, width, header>>,
                     Table(a, header, caption, alignment, width))
      [] tag \in {"MetaList", "MetaString"} -> c
      [] tag = "MetaMap" -> OrderedDict(c)
      [] tag = "MetaBool" ->
            LET m == PyIn(c, PySet({PyBool(TRUE), PyBool(FALSE)})) IN
            IF IsRaise(m) THEN m
            ELSE IF m.v THEN c ELSE Raise("AssertionError", "from_json")
      [] tag \in SPECIAL_ELEMENTS -> PyStr(tag)
      [] OTHER -> unknown_tag(tag, c)

\* from_json(data): data is the list of (key, value) pairs of one JSON
\* object, its values already decoded
from_json(data) ==
    IF PyEq(data, PyList(<<>>)) THEN data
    ELSE LET k0 == Item2(data, 0, 0) IN
         IF IsRaise(k0) THEN k0
         ELSE IF ~PyEq(k0, PyStr("t"))
         THEN IF PyEq(k0, PyStr("unMeta"))
              THEN IF Len(data.v) # 1 THEN Raise("AssertionError", "from_json")
                   ELSE LET c == Item2(data, 0, 1) IN
                        Eval(<<c>>, OrderedDict(c))
              ELSE data
         ELSE LET k1 == Item2(data, 1, 0)
                  tag == Item2(data, 0, 1)
                  c == Item2(data, 1, 1)
              IN  IF IsRaise(k1) THEN k1
                  ELSE IF ~PyEq(k1, PyStr("c"))
                       THEN Raise("AssertionError", "from_json")
                  ELSE IF IsRaise(tag) THEN tag
                  ELSE IF IsRaise(c) THEN c
                  ELSE IF IsStr(tag) THEN Dispatch(tag.v, c)
                  ELSE IF ~Hashable(tag) THEN Raise("TypeError", "hash")
                  ELSE Raise("TypeError", "unknown tag")

\* the (key, value) pairs json hands to object_pairs_hook
Pairs(keys, values) ==
    PyList([i \in 1..Len(keys) |-> PyTuple(<<keys[i][1], values[i]>>)])

\* json.load(..., object_pairs_hook=from_json) read back from the JSON text
\* of x: objects are decoded bottom-up, each through from_json; an element
\* has no JSON text
RECURSIVE loads(_)
loads(x) ==
    CASE IsDict(x) ->
            LET vs == [i \in 1..Len(x.v) |-> loads(x.v[i][2])] IN
            Eval(vs, from_json(Pairs(x.v, vs)))
      [] x.ty \in {"list", "tuple"} -> ListOf(x.v, loads)
      [] x.ty \in {"str", "int", "bool", "float", "NoneType"} -> x
      [] OTHER -> Raise("TypeError", "json")

-----------------------------------------------------------------------------
(* Doc.get_metadata *)

\* request.split('.') of the characters cs, cur the piece being read
RECURSIVE SplitChars(_, _)
SplitChars(cs, cur) ==
    IF cs = <<>> THEN <<cur>>
    ELSE IF Head(cs) = "." THEN <<cur>> \o SplitChars(Tail(cs), "")
    ELSE SplitChars(Tail(cs), cur \o Head(cs))
split(s) == SplitChars(Chars(s), "")

\* the for loop over keys, from the value meta
RECURSIVE Descend(_, _, _)
Descend(meta, keys, default) ==
    IF keys = <<>> THEN meta
    ELSE LET key == PyStr(Head(keys))
             m == PyIn(key, meta)
         IN  IF IsRaise(m) THEN m
             ELSE IF ~m.v THEN default
             ELSE LET next == Lookup(meta, key) IN
                  IF IsRaise(next) THEN next
                  ELSE Descend(next, Tail(keys), default)

get_metadata(self, request, default) ==
    IF ~IsStr(request) THEN Raise("AttributeError", "get_metadata")
    ELSE Descend(self.v.metadata, split(request.v), default)

-----------------------------------------------------------------------------
(* The calls a client makes.  A construction request names the class, the  *)
(* positional arguments and the keyword arguments; a parameter with a      *)
(* default is passed its default when the client leaves it out.            *)

NoKw == [none |-> PyNone]
Request(cls, args, kw) == [cls |-> cls, args |-> args, kw |-> kw]

-----------------------------------------------------------------------------
(* The values the calls are made with *)

\* the most children a request passes to one container
MaxItems == 2
\* the most keys in a get_metadata request
MaxKeys == 2

\* elements a client holds already, as their constructors return them
Space == Node("Space", NoSlots)
Null == Node("Null", NoSlots)
StrA == Node("Str", [text |-> PyStr("a")])
EmphStrA == Node("Emph", [items |-> PyList(<<StrA>>)])
AttrsAB == OrderedDictOfPairs(<< <<PyStr("a"), PyStr("b")>> >>)
SpanAttrs ==
    Node("Span",
         [items |-> PyList(<<Space>>), identifier |-> PyStr("a"),
          classes |-> PyList(<<PyStr("b")>>), attributes |-> AttrsAB])
ParaEmph == Node("Para", [items |-> PyList(<<EmphStrA>>)])
MetaInlinesSpace == Node("MetaInlines", [items |-> PyList(<<Space>>)])

\* what a request passes as a child: Inline and Block elements, nested ones,
\* an element that is neither, and callables returning an element
Kids ==
    {Space, Null, SpanAttrs, ParaEmph, MetaInlinesSpace,
     PyClass("Space"), PyFunction(Null)}
KidSeqs == UNION {[1..n -> Kids] : n \in 0..MaxItems}

\* the arguments of a class whose items are lists of children (depth 2)
RowArgs ==
    {<<>>, <<Null>>}
    \cup {<<PyList(ks)>> : ks \in KidSeqs}
    \cup {<<PyList(<<Null>>), PyList(ks)>> : ks \in KidSeqs}

\* the arguments of a Table: rows of cells of children (depth 3)
Cell(ks) == PyList(ks)
TableArgs ==
    {<<>>,
     <<PyList(<<Cell(<<Null>>), Cell(<<Null>>)>>)>>,
     <<PyList(<<Cell(<<Null>>)>>), PyList(<<Cell(<<Null>>)>>)>>,
     <<PyList(<<Cell(<<Null>>)>>), PyList(<<Cell(<<Null>>), Cell(<<Null>>)>>)>>}
    \cup {<<PyList(<<Cell(ks)>>)>> : ks \in KidSeqs}

IcaInputs ==
    {[identifier |-> PyStr(""), classes |-> PyNone, attributes |-> PyNone],
     [identifier |-> PyStr("a"), classes |-> PyList(<<PyStr("b")>>),
      attributes |-> AttrsAB],
     [identifier |-> PyInt(1), classes |-> PyNone, attributes |-> PyNone],
     [identifier |-> PyStr(""), classes |-> PyList(<<PyInt(1)>>),
      attributes |-> PyNone],
     [identifier |-> PyStr(""), classes |-> PyNone,
      attributes |-> PyList(<<PyList(<<PyStr("a"), PyStr("b")>>)>>)]}

LevelInputs == {PyInt(0), PyInt(1), PyInt(6), PyInt(7)}
QuoteInputs == {PyStr("SingleQuote"), PyStr("DoubleQuote"), PyStr("TripleQuote")}
TextInputs == {PyStr("a"), PyInt(1)}
FormatInputs ==
    {PyStr("html"), PyStr("tex"), PyStr("latex"), PyStr("InlineMath"),
     PyStr("DisplayMath"), PyStr("rtf"), PyList(<<>>)}
StartInputs == {PyInt(0 - 1), PyInt(0), PyInt(1)}
StyleInputs == {PyStr("Decimal"), PyStr("UpperAlpha"), PyStr("Roman")}
DelimiterInputs == {PyStr("Period"), PyStr("TwoParens"), PyStr("Colon")}
TargetInputs ==
    {[url |-> PyStr("a"), title |-> PyStr("b")],
     [url |-> PyInt(1), title |-> PyStr("b")],
     [url |-> PyStr("a"), title |-> PyNone]}

\* a citation as the decoder hands it to Cite: the (key, value) pairs of
\* its JSON object
CitationPairs(mode, prefix) ==
    PyList(<<PyTuple(<<PyStr("citationSuffix"), PyList(<<>>)>>),
             PyTuple(<<PyStr("citationNoteNum"), PyInt(0)>>),
             PyTuple(<<PyStr("citationMode"), mode>>),
             PyTuple(<<PyStr("citationPrefix"), prefix>>),
             PyTuple(<<PyStr("citationId"), PyStr("a")>>),
             PyTuple(<<PyStr("citationHash"), PyInt(0)>>)>>)
ModeInputs == {PyStr("NormalCitation"), PyStr("AuthorInText"), PyStr("NoCitation")}
PrefixInputs == {PyList(<<>>), PyList(<<Space>>), PyList(<<Null>>)}
CitationsInputs ==
    {PyList(<<>>), PyNone}
    \cup {PyList(<<CitationPairs(m, p)>>) : m \in ModeInputs, p \in PrefixInputs}
    \cup {PyList(<<CitationPairs(PyStr("NormalCitation"), PyList(<<>>)),
                   CitationPairs(PyStr("SuppressAuthor"), PyList(<<>>))>>)}

HeaderInputs ==
    {PyNone, PyList(<<Cell(<<Null>>)>>), PyList(<<Cell(<<Null>>), Cell(<<Null>>)>>),
     PyList(<<Cell(<<Space>>)>>)}
CaptionInputs == {PyNone, PyList(<<Space>>), PyList(<<Null>>)}
\* the alignment and the width of a Table request
ColumnInputs ==
    {[alignment |-> PyNone, width |-> PyNone],
     [alignment |-> PyList(<<PyStr("AlignLeft")>>), width |-> PyList(<<PyFloat(0)>>)],
     [alignment |-> PyList(<<PyStr("AlignLeft"), PyStr("AlignRight")>>),
      width |-> PyList(<<PyFloat(0), PyFloat(1)>>)],
     [alignment |-> PyList(<<PyStr("AlignLeft")>>),
      width |-> PyList(<<PyFloat(0), PyFloat(1)>>)],
     [alignment |-> PyList(<<PyStr("AlignLeft"), PyStr("AlignRight")>>),
      width |-> PyList(<<PyFloat(0)>>)],
     [alignment |-> PyList(<<PyStr("AlignTop")>>), width |-> PyList(<<PyFloat(0)>>)],
     [alignment |-> PyList(<<PyStr("AlignLeft")>>),
      width |-> PyList(<<PyFloat(0 - 1)>>)]}

\* the pairs of a definition list: (term, definitions)
DefinitionArgs ==
    {<<>>,
     <<PyTuple(<<PyList(<<Space>>), PyList(<<PyList(<<Null>>)>>)>>)>>,
     <<PyTuple(<<PyList(<<Space>>), PyList(<<PyList(<<Null>>)>>)>>),
       PyTuple(<<PyList(<<StrA>>), PyList(<<PyList(<<ParaEmph>>)>>)>>)>>,
     <<PyTuple(<<PyList(<<Null>>), PyList(<<PyList(<<Space>>)>>)>>)>>,
     <<PyTuple(<<PyList(<<Space>>)>>)>>,
     <<Null>>}

\* metadata values: the variants metawalk encodes, and values it rejects
MetaBlocksNull == Node("MetaBlocks", [items |-> PyList(<<Null>>)])
MapOf(k, x) == OrderedDictOfPairs(<< <<PyStr(k), x>> >>)
MetaValues ==
    {PyStr("a"), PyStr("ab"), PyBool(TRUE), PyBool(FALSE),
     PyList(<<>>), PyList(<<PyStr("a")>>), PyList(<<PyStr("b"), PyBool(TRUE)>>),
     OrderedDictOfPairs(<<>>), MapOf("b", PyBool(TRUE)), MapOf("b", PyStr("a")),
     MapOf("b", MapOf("a", PyList(<<PyBool(FALSE)>>))),
     OrderedDictOfPairs(<< <<PyStr("b"), PyStr("a")>>,
                           <<PyStr("a"), PyBool(TRUE)>> >>),
     MetaInlinesSpace, MetaBlocksNull, PyList(<<MetaInlinesSpace>>)}
BadMetaValues ==
    {PyInt(1), PyNone, PyList(<<PyInt(1)>>), MapOf("b", PyNone),
     PyDict(<<>>), ParaEmph}

\* the metadata argument of a Doc: ordered maps, and two that are none
MetadataInputs ==
    {OrderedDictOfPairs(<<>>), PyDict(<<>>), PyNone}
    \cup {MapOf("a", x) : x \in MetaValues \cup BadMetaValues}
    \cup {OrderedDictOfPairs(<< <<PyStr("a"), PyBool(TRUE)>>,
                                <<PyStr("b"), MapOf("a", PyStr("b"))>> >>)}
ItemsInputs == {PyList(<<>>), PyList(<<Null>>), PyList(<<ParaEmph, Null>>)}

\* the keys a get_metadata request is written with, joined by '.'
PathKeys == {"a", "b", ""}
KeySeqs == UNION {[1..n -> PathKeys] : n \in 1..MaxKeys}
RECURSIVE Join(_)
Join(ks) ==
    IF Len(ks) = 1 THEN ks[1] ELSE ks[1] \o "." \o Join(Tail(ks))
Default == PyStr("default")

\* wire values: the JSON a client hands to the decoder
Tagged(tag, c) == encode_dict(PyStr(tag), c)
Enum(tag) == Tagged(tag, PyList(<<>>))
SpaceWire == Tagged("Space", PyList(<<>>))
NullWire == Tagged("Null", PyList(<<>>))
StrWire == Tagged("Str", PyStr("a"))
NoAttr == PyList(<<PyStr(""), PyList(<<>>), PyList(<<>>)>>)
IdClasses == PyList(<<PyStr("a"), PyList(<<PyStr("b")>>), PyList(<<>>)>>)
OnePair ==
    PyList(<<PyStr("a"), PyList(<<PyStr("b")>>),
             PyList(<<PyList(<<PyStr("a"), PyStr("b")>>)>>)>>)
TwoPairs ==
    PyList(<<PyStr(""), PyList(<<>>),
             PyList(<<PyList(<<PyStr("b"), PyStr("a")>>),
                      PyList(<<PyStr("a"), PyStr("b")>>)>>)>>)
AttrWires == {NoAttr, IdClasses, OnePair, TwoPairs}

\* tagged elements of the documented shapes
ElementWires ==
    {SpaceWire, NullWire, StrWire,
     Tagged("Para", PyList(<<StrWire, SpaceWire>>)),
     Tagged("Note", PyList(<<Tagged("Para", PyList(<<StrWire>>))>>)),
     Tagged("Quoted", PyList(<<Enum("SingleQuote"), PyList(<<StrWire>>)>>)),
     Tagged("Math", PyList(<<Enum("InlineMath"), PyStr("a")>>)),
     Tagged("RawBlock", PyList(<<PyStr("html"), PyStr("a")>>)),
     Tagged("RawInline", PyList(<<PyStr("tex"), PyStr("a")>>)),
     Tagged("BulletList", PyList(<<PyList(<<NullWire>>)>>)),
     Tagged("OrderedList",
            PyList(<<PyList(<<PyInt(1), Enum("Decimal"), Enum("Period")>>),
                     PyList(<<PyList(<<NullWire>>)>>)>>)),
     Tagged("Cite", PyList(<<PyList(<<>>), PyList(<<StrWire>>)>>)),
     Tagged("DefinitionList", PyList(<<>>))}
    \cup {Tagged("Header", PyList(<<PyInt(2), a, PyList(<<StrWire>>)>>)) :
             a \in AttrWires}
    \cup {Tagged(t, PyList(<<a, PyList(<<>>)>>)) :
             t \in {"Div", "Span"}, a \in AttrWires}
    \cup {Tagged(t, PyList(<<a, PyList(<<StrWire>>),
                             PyList(<<PyStr("a"), PyStr("b")>>)>>)) :
             t \in {"Link", "Image"}, a \in AttrWires}
    \cup {Tagged(t, PyList(<<a, PyStr("a")>>)) :
             t \in {"Code", "CodeBlock"}, a \in AttrWires}

\* the wire forms of a table, a definition list and a citation
CitationWire ==
    OrderedDictOfPairs(<< <<PyStr("citationSuffix"), PyList(<<>>)>>,
                          <<PyStr("citationNoteNum"), PyInt(0)>>,
                          <<PyStr("citationMode"), Enum("NormalCitation")>>,
                          <<PyStr("citationPrefix"), PyList(<<>>)>>,
                          <<PyStr("citationId"), PyStr("a")>>,
                          <<PyStr("citationHash"), PyInt(0)>> >>)
StructuredWires ==
    {Tagged("Table",
            PyList(<<PyList(<<StrWire>>), PyList(<<Enum("AlignLeft")>>),
                     PyList(<<PyFloat(0)>>), PyList(<<PyList(<<NullWire>>)>>),
                     PyList(<<PyList(<<PyList(<<NullWire>>)>>)>>)>>)),
     Tagged("DefinitionList",
            PyList(<<PyList(<<PyList(<<StrWire>>),
                              PyList(<<PyList(<<NullWire>>)>>)>>)>>)),
     Tagged("Cite", PyList(<<PyList(<<CitationWire>>), PyList(<<StrWire>>)>>))}

\* tagged metadata values, and ordered maps under the keys a map may use
MetaBoolWire == Tagged("MetaBool", PyBool(TRUE))
MapKeys == {"a", "t", "c", "unMeta"}
MapWires ==
    {OrderedDictOfPairs(<<>>)}
    \cup {MapOf(k, MetaBoolWire) : k \in MapKeys}
    \cup {OrderedDictOfPairs(<< <<PyStr(kj[1]), MetaBoolWire>>,
                                <<PyStr(kj[2]), Tagged("MetaList", PyList(<<>>))>> >>) :
             kj \in {q \in MapKeys \X MapKeys : q[1] # q[2]}}
MetaWires ==
    {Tagged("MetaString", PyStr("a")), MetaBoolWire,
     Tagged("MetaBool", PyInt(2)),
     Tagged("MetaList", PyList(<<>>)),
     Tagged("MetaList", PyList(<<MetaBoolWire, MetaBoolWire>>)),
     Tagged("MetaList", PyList(<<Tagged("MetaString", PyStr("a"))>>)),
     Tagged("MetaInlines", PyList(<<StrWire, SpaceWire>>)),
     Tagged("MetaBlocks", PyList(<<NullWire>>)),
     Tagged("MetaInlines", PyList(<<NullWire>>)),
     Tagged("MetaMap", MapOf("a", Tagged("MetaMap", MapOf("b", MetaBoolWire))))}
    \cup {Tagged("MetaMap", m) : m \in MapWires}

\* tags: the enumeration values, and tags no class or enumeration has
UnknownTags == {"FutureBlock", "para", "Citation", "Doc", "MetaValue", ""}
EnumTags ==
    LIST_NUMBER_STYLES \cup LIST_NUMBER_DELIMITERS \cup TABLE_ALIGNMENT
    \cup QUOTE_TYPES \cup CITATION_MODE \cup MATH_FORMATS \cup RAW_FORMATS
ContentInputs == {PyList(<<>>), PyStr("a"), PyList(<<SpaceWire>>), PyNone}
TagWires ==
    {Tagged(t, c) : t \in UnknownTags \cup EnumTags, c \in ContentInputs}
    \cup {MapOf("t", PyStr("FutureBlock")),
          OrderedDictOfPairs(<< <<PyStr("t"), PyStr("FutureBlock")>>,
                                <<PyStr("x"), PyList(<<>>)>> >>),
          encode_dict(PyInt(1), PyList(<<>>)),
          encode_dict(PyList(<<>>), PyList(<<>>))}

\* documents: [{"unMeta": metadata}, blocks]
DocWire(m, blocks) == PyList(<<MapOf("unMeta", m), blocks>>)
DocWires ==
    {DocWire(OrderedDictOfPairs(<<>>), PyList(<<>>)),
     DocWire(OrderedDictOfPairs(<<>>), PyList(<<NullWire>>)),
     DocWire(MapOf("a", MetaBoolWire), PyList(<<Tagged("Para", PyList(<<StrWire>>))>>))}

WireInputs ==
    ElementWires \cup StructuredWires \cup MetaWires \cup MapWires
    \cup TagWires \cup DocWires \cup {PyList(<<>>)}

-----------------------------------------------------------------------------
(* The state machine: one client call per step.  op names the function     *)
(* last called, arg what it was called with, ret what it returned or       *)
(* raised.  A client starts from nothing ("init"), makes a call on values  *)
(* of its own, may pass what a call returned on to the next call, and      *)
(* drops the result to start again.                                        *)

Init ==
    /\ op = "init"
    /\ arg = PyNone
    /\ ret = PyNone

LeafClasses == {"Null", "Space", "HorizontalRule", "SoftBreak", "LineBreak"}

NewLeaf ==
    /\ op = "init"
    /\ \E cls \in LeafClasses :
        /\ op' = "new"
        /\ arg' = Request(cls, NoArgs, NoKw)
        /\ ret' = Leaf(cls)

NewContainer ==
    /\ op = "init"
    /\ \E cls \in ItemsClasses \ {"BulletList"}, ks \in KidSeqs :
        /\ op' = "new"
        /\ arg' = Request(cls, PyTuple(ks), NoKw)
        /\ ret' = ItemsOnly(cls, PyTuple(ks))

NewBulletList ==
    /\ op = "init"
    /\ \E rows \in RowArgs :
        /\ op' = "new"
        /\ arg' = Request("BulletList", PyTuple(rows), NoKw)
        /\ ret' = ItemsOnly("BulletList", PyTuple(rows))

NewOrderedList ==
    /\ op = "init"
    /\ \E rows \in RowArgs, start \in StartInputs, style \in StyleInputs,
           delimiter \in DelimiterInputs :
        /\ op' = "new"
        /\ arg' = Request("OrderedList", PyTuple(rows), [start |->
                  start, style |-> style, delimiter |-> delimiter])
        /\ ret' = OrderedList(PyTuple(rows), start, style, delimiter)

NewDefinitionList ==
    /\ op = "init"
    /\ \E ps \in DefinitionArgs :
        /\ op' = "new"
        /\ arg' = Request("DefinitionList", PyTuple(ps), NoKw)
        /\ ret' = DefinitionList(PyTuple(ps))

NewTable ==
    /\ op = "init"
    /\ \E rows \in TableArgs, header \in HeaderInputs, caption \in CaptionInputs,
           col \in ColumnInputs :
        /\ op' = "new"
        /\ arg' = Request("Table", PyTuple(rows), [header |-> header,
                  caption |-> caption, alignment |-> col.alignment, width |->
                  col.width])
        /\ ret' = Table(PyTuple(rows), header, caption, col.alignment,
                  col.width)

NewHeader ==
    /\ op = "init"
    /\ \E ks \in KidSeqs, level \in LevelInputs, ica \in IcaInputs :
        /\ op' = "new"
        /\ arg' = Request("Header", PyTuple(ks), [level |-> level,
                  identifier |-> ica.identifier, classes |-> ica.classes,
                  attributes |-> ica.attributes])
        /\ ret' = Header(PyTuple(ks), level, ica.identifier,
                  ica.classes, ica.attributes)

NewDivSpan ==
    /\ op = "init"
    /\ \E cls \in {"Div", "Span"}, ks \in KidSeqs, ica \in IcaInputs :
        /\ op' = "new"
        /\ arg' = Request(cls, PyTuple(ks), [identifier |->
                  ica.identifier, classes |-> ica.classes, attributes |->
                  ica.attributes])
        /\ ret' = IcaItems(cls, PyTuple(ks), ica.identifier,
                  ica.classes, ica.attributes)

NewLinkImage ==
    /\ op = "init"
    /\ \E cls \in {"Link", "Image"}, ks \in KidSeqs, ut \in TargetInputs,
           ica \in IcaInputs :
        /\ op' = "new"
        /\ arg' = Request(cls, PyTuple(ks), [url |-> ut.url, title |->
                  ut.title, identifier |-> ica.identifier, classes |->
                  ica.classes, attributes |-> ica.attributes])
        /\ ret' = Target(cls, PyTuple(ks), ut.url, ut.title,
                  ica.identifier, ica.classes, ica.attributes)

NewQuoted ==
    /\ op = "init"
    /\ \E ks \in KidSeqs, qt \in QuoteInputs :
        /\ op' = "new"
        /\ arg' = Request("Quoted", PyTuple(ks), [quote_type |-> qt])
        /\ ret' = Quoted(PyTuple(ks), qt)

NewCite ==
    /\ op = "init"
    /\ \E ks \in KidSeqs, cs \in CitationsInputs :
        /\ op' = "new"
        /\ arg' = Request("Cite", PyTuple(ks), [citations |-> cs])
        /\ ret' = Cite(PyTuple(ks), cs)

NewCitation ==
    /\ op = "init"
    /\ \E mode \in ModeInputs, prefix \in PrefixInputs, suffix \in PrefixInputs :
        /\ op' = "new"
        /\ arg' = Request("Citation", NoArgs, [citationHash |->
                  PyInt(0), citationId |-> PyStr("a"), citationMode |-> mode,
                  citationNoteNum |-> PyInt(0), citationPrefix |-> prefix,
                  citationSuffix |-> suffix])
        /\ ret' = Citation(PyInt(0), PyStr("a"), mode, PyInt(0), prefix,
                  suffix)

NewStr ==
    /\ op = "init"
    /\ \E text \in TextInputs :
        /\ op' = "new"
        /\ arg' = Request("Str", NoArgs, [text |-> text])
        /\ ret' = Str(text)

NewCode ==
    /\ op = "init"
    /\ \E cls \in {"Code", "CodeBlock"}, text \in TextInputs, ica \in IcaInputs :
        /\ op' = "new"
        /\ arg' = Request(cls, NoArgs, [text |-> text, identifier
                  |-> ica.identifier, classes |-> ica.classes, attributes |->
                  ica.attributes])
        /\ ret' = IcaText(cls, text, ica.identifier, ica.classes,
                  ica.attributes)

NewRawMath ==
    /\ op = "init"
    /\ \E cls \in {"RawBlock", "RawInline", "Math"}, text \in TextInputs,
           format \in FormatInputs :
        /\ op' = "new"
        /\ arg' = Request(cls, NoArgs, [text |-> text, format |->
                  format])
        /\ ret' = TextFormat(cls, text, format)

NewDoc ==
    /\ op = "init"
    /\ \E metadata \in MetadataInputs, items \in ItemsInputs :
        /\ op' = "new"
        /\ arg' = Request("Doc", NoArgs, [metadata |-> metadata,
                  items |-> items, format |-> PyStr("html")])
        /\ ret' = Doc(metadata, items, PyStr("html"))

\* to_json(element) of the element or document last built or decoded
ToJson ==
    /\ op \in {"new", "loads"}
    /\ IsElement(ret) \/ ret.ty = "Doc"
    /\ op' = "to_json"
    /\ arg' = ret
    /\ ret' = to_json(ret)

\* metawalk(e) of a metadata value
Metawalk ==
    /\ op = "init"
    /\ \E e \in MetaValues \cup BadMetaValues :
        /\ op' = "metawalk"
        /\ arg' = e
        /\ ret' = metawalk(e)

\* metawalk(e) of the metadata value last decoded
MetawalkDecoded ==
    /\ op = "loads"
    /\ ~IsRaise(ret) /\ ~IsElement(ret)
    /\ op' = "metawalk"
    /\ arg' = ret
    /\ ret' = metawalk(ret)

\* the decoder run on a wire value
Loads ==
    /\ op = "init"
    /\ \E w \in WireInputs :
        /\ op' = "loads"
        /\ arg' = w
        /\ ret' = loads(w)

\* the decoder run on what the encoder last returned
LoadsEncoded ==
    /\ op \in {"to_json", "metawalk"}
    /\ ~IsRaise(ret)
    /\ op' = "loads"
    /\ arg' = ret
    /\ ret' = loads(ret)

\* doc.get_metadata(request, default) on the document last built
GetMetadata ==
    /\ op = "new"
    /\ ret.ty = "Doc"
    /\ \E ks \in KeySeqs :
        /\ op' = "get_metadata"
        /\ arg' = [self |-> ret, keys |-> ks, request |-> PyStr(Join(ks)),
                   default |-> Default]
        /\ ret' = get_metadata(ret, PyStr(Join(ks)), Default)

\* the client drops the result
Drop ==
    /\ op # "init"
    /\ op' = "init"
    /\ arg' = PyNone
    /\ ret' = PyNone

Next ==
    \/ NewLeaf
    \/ NewContainer
    \/ NewBulletList
    \/ NewOrderedList
    \/ NewDefinitionList
    \/ NewTable
    \/ NewHeader
    \/ NewDivSpan
    \/ NewLinkImage
    \/ NewQuoted
    \/ NewCite
    \/ NewCitation
    \/ NewStr
    \/ NewCode
    \/ NewRawMath
    \/ NewDoc
    \/ ToJson
    \/ Metawalk
    \/ MetawalkDecoded
    \/ Loads
    \/ LoadsEncoded
    \/ GetMetadata
    \/ Drop

Spec == Init /\ [][Next]_vars

-----------------------------------------------------------------------------
(* Properties *)

\* the construction request of the state, once a constructor has run
Built(cls) == op = "new" /\ arg.cls = cls

\* the JSON text of a value: a tuple is written as a list is, a dict as an
\* ordered one is
RECURSIVE JsonText(_)
JsonText(x) ==
    CASE x.ty \in {"list", "tuple"} ->
            PyList([i \in 1..Len(x.v) |-> JsonText(x.v[i])])
      [] x.ty \in {"dict", "OrderedDict"} ->
            OrderedDictOfPairs([i \in 1..Len(x.v) |->
                                  <<x.v[i][1], JsonText(x.v[i][2])>>])
      [] OTHER -> x

\* C1: decoding the encoding of a node the constructors accepted yields a
\* node equal to the original: whenever the decoder runs on what to_json
\* returned for an element, it returns that element.
C1_RoundTrip ==
    [][(op = "to_json" /\ IsElement(arg) /\ ~IsRaise(ret) /\ op' = "loads")
         => ret' = arg]_vars

\* the wire values of the documented shapes: tagged elements, tagged
\* metadata values, and the empty array
DocumentedWires ==
    ElementWires \cup StructuredWires \cup MetaWires \cup {PyList(<<>>)}

\* C2: encoding the decoded value of a well-formed wire value the decoder
\* accepts gives back that wire value: whenever the encoder (to_json for an
\* element, metawalk for a metadata value) runs on what the decoder returned
\* for a documented wire value, its result has the JSON text of that value.
C2_WireRoundTrip ==
    [][(op = "loads" /\ arg \in DocumentedWires /\ ~IsRaise(ret)
          /\ op' \in {"to_json", "metawalk"})
         => JsonText(ret') = JsonText(arg)]_vars

\* the capability each container requires of its children, and the depth
\* at which its items argument holds them
InlineParents ==
    {"Plain", "Para", "Emph", "Strong", "Strikeout", "Superscript",
     "Subscript", "SmallCaps", "Header", "Span", "Quoted", "Cite", "Link",
     "Image", "MetaInlines"}
BlockParents ==
    {"BlockQuote", "Note", "Div", "BulletList", "OrderedList", "Table",
     "MetaBlocks"}
ItemsDepth(cls) ==
    CASE cls \in {"BulletList", "OrderedList"} -> 2
      [] cls = "Table" -> 3
      [] OTHER -> 1
\* the children held depth levels deep in the sequence xs
RECURSIVE ChildrenAt(_, _)
ChildrenAt(xs, depth) ==
    IF depth = 1 THEN {xs[i] : i \in 1..Len(xs)}
    ELSE UNION {IF xs[i].ty \in {"list", "tuple"}
                THEN ChildrenAt(xs[i].v, depth - 1) ELSE {} :
                  i \in 1..Len(xs)}
\* a child as it stands once a callable has been replaced by its result
Resolved(x) == IF callable(x) THEN Call0(x) ELSE x
Carries(x, cls) ==
    IF cls \in BlockParents THEN IsBlock(x) ELSE IsInline(x)
MisplacedChild(request) ==
    \E x \in ChildrenAt(request.args.v, ItemsDepth(request.cls)) :
        ~Carries(Resolved(x), request.cls)

Columns(request) == Len(request.args.v[1].v)
\* a Table request whose header, rows, alignment and width disagree
Misshapen(request) ==
    /\ request.args.v # <<>>
    /\ \/ /\ request.kw.header # PyNone
          /\ \E i \in 1..Len(request.args.v) :
                Len(request.args.v[i].v) # Len(request.kw.header.v)
       \/ /\ request.kw.alignment # PyNone
          /\ Len(request.kw.alignment.v) # Columns(request)
       \/ /\ request.kw.width # PyNone
          /\ Len(request.kw.width.v) # Columns(request)
\* a Table node whose header, rows, alignment and width agree
Shaped(table) ==
    /\ \A i \in 1..Len(table.v.items.v) :
          Len(table.v.items.v[i].v) = Len(table.v.header.v)
    /\ Len(table.v.alignment.v) = Len(table.v.header.v)
    /\ Len(table.v.width.v) = Len(table.v.header.v)

\* C4: constructing a Table fails whenever the header cell count differs
\* from the cell count of a body row, or the alignment or the width has a
\* length other than the column count; every Table node that exists has
\* header, rows, alignment and width of one length.
C4_TableGeometry ==
    /\ (Built("Table") /\ Misshapen(arg)) => IsRaise(ret)
    /\ ret.ty = "Table" => Shaped(ret)

\* a Table asked for with one body row of one cell, a header of one cell, a
\* caption, and an alignment and a width of two entries, was refused
C4_Witness ==
    /\ Built("Table")
    /\ arg.args = PyTuple(<<PyList(<<Cell(<<Null>>)>>)>>)
    /\ arg.kw.header = PyList(<<Cell(<<Null>>)>>)
    /\ arg.kw.caption = PyList(<<Space>>)
    /\ Len(arg.kw.alignment.v) = 2
    /\ Len(arg.kw.width.v) = 2
    /\ IsRaise(ret)

\* the legal values of the enumerated and numeric fields
Strs(S) == {PyStr(s) : s \in S}
LegalLevel(x) == IsNumber(x) /\ NumberOf(x) \in 1..6
LegalStart(x) == IsNumber(x) /\ NumberOf(x) >= 0
LegalAlignment(xs) ==
    \A i \in 1..Len(xs.v) : xs.v[i] \in Strs(TABLE_ALIGNMENT)
LegalWidth(xs) ==
    \A i \in 1..Len(xs.v) : IsNumber(xs.v[i]) /\ NumberOf(xs.v[i]) >= 0
\* whether the fields f of a request or of a node of class cls are legal
LegalFields(cls, f) ==
    CASE cls = "Header" -> LegalLevel(f.level)
      [] cls = "Quoted" -> f.quote_type \in Strs(QUOTE_TYPES)
      [] cls = "Citation" -> f.citationMode \in Strs(CITATION_MODE)
      [] cls = "Math" -> f.format \in Strs(MATH_FORMATS)
      [] cls \in {"RawBlock", "RawInline"} -> f.format \in Strs(RAW_FORMATS)
      [] cls = "OrderedList" ->
            /\ LegalStart(f.start)
            /\ f.style \in Strs(LIST_NUMBER_STYLES)
            /\ f.delimiter \in Strs(LIST_NUMBER_DELIMITERS)
      [] cls = "Table" ->
            /\ f.alignment = PyNone \/ LegalAlignment(f.alignment)
            /\ f.width = PyNone \/ LegalWidth(f.width)
      [] OTHER -> TRUE

\* C5: construction fails when an enumerated or numeric field (Header level,
\* Quoted quote_type, Citation mode, Math format, RawBlock/RawInline format,
\* OrderedList start, style and delimiter, Table alignment and width) is
\* outside its legal set; every node a constructor returns, to a client or
\* to the decoder, has these fields inside their legal sets.
C5_FieldsChecked ==
    /\ (op = "new" /\ ~LegalFields(arg.cls, arg.kw)) => IsRaise(ret)
    /\ (op \in {"new", "loads"} /\ IsElement(ret)) => LegalFields(ret.ty, ret.v)

\* a Header of level 7 with no children and no attributes was refused
C5_Witness ==
    /\ Built("Header")
    /\ arg.args = NoArgs
    /\ arg.kw.level = PyInt(7)
    /\ arg.kw.identifier = PyStr("") /\ arg.kw.classes = PyNone
    /\ ret = Raise("AssertionError", "validate")

\* a wire value {"t": <a string>, "c": ...}
IsTagged(x) ==
    /\ x.ty = "OrderedDict"
    /\ Len(x.v) = 2
    /\ x.v[1][1] = PyStr("t") /\ IsStr(x.v[1][2])
    /\ x.v[2][1] = PyStr("c")
TagOf(x) == x.v[1][2].v
\* the tags of node kinds, of metadata values and of enumeration values
MetaTags ==
    {"MetaList", "MetaMap", "MetaInlines", "MetaBlocks", "MetaString",
     "MetaBool"}
EnumerationValues ==
    LIST_NUMBER_STYLES \cup LIST_NUMBER_DELIMITERS \cup TABLE_ALIGNMENT
    \cup QUOTE_TYPES \cup CITATION_MODE \cup MATH_FORMATS
KnownTags ==
    ElementClasses \cup MetaTags \cup EnumerationValues \cup RAW_FORMATS

\* C6: decoding a tagged wire value whose tag is no node kind, no metadata
\* tag and no enumeration value ends in an error, and returns nothing.
C6_UnknownTagFails ==
    (op = "loads" /\ IsTagged(arg) /\ TagOf(arg) \notin KnownTags)
      => IsRaise(ret)

\* {"t": "FutureBlock", "c": []} was refused as an unknown tag
C6_Witness ==
    /\ op = "loads"
    /\ arg = Tagged("FutureBlock", PyList(<<>>))
    /\ ret = Raise("Exception", "unknown tag")

\* the wire value {"t": e, "c": []} decoded
EnumDecoded(e) == op = "loads" /\ arg = Enum(e)

\* C7, as the specification states it: for every member e of the enumeration
\* value sets, the raw-content formats html, tex and latex among them,
\* decoding {"t": e, "c": []} returns the string e.
C7_EveryEnumDecodes ==
    \A e \in EnumerationValues \cup RAW_FORMATS :
        EnumDecoded(e) => ret = PyStr(e)

\* C7, as the code has it: for every member e of the list number styles,
\* the list number delimiters, the table alignments, the quote types, the
\* citation modes and the math formats, decoding {"t": e, "c": []} returns
\* the string e; for the raw-content formats html, tex and latex it ends in
\* the error of an unknown tag.
C7_EnumDecodes ==
    /\ \A e \in EnumerationValues : EnumDecoded(e) => ret = PyStr(e)
    /\ \A e \in RAW_FORMATS :
          EnumDecoded(e) => ret = Raise("Exception", "unknown tag")

\* {"t": "NormalCitation", "c": []} was decoded to "NormalCitation"
C7_Witness ==
    /\ EnumDecoded("NormalCitation")
    /\ ret = PyStr("NormalCitation")

\* a metadata tree of strings, booleans, sequences and ordered maps
RECURSIVE IsMetaTree(_)
IsMetaTree(x) ==
    CASE x.ty \in {"str", "bool"} -> TRUE
      [] x.ty = "list" -> \A i \in 1..Len(x.v) : IsMetaTree(x.v[i])
      [] x.ty = "OrderedDict" ->
            \A i \in 1..Len(x.v) : IsStr(x.v[i][1]) /\ IsMetaTree(x.v[i][2])
      [] OTHER -> FALSE
\* the value the keys lead to through the maps, default as soon as a key is
\* not a key of the value reached
RECURSIVE Follow(_, _, _)
Follow(meta, keys, default) ==
    IF keys = <<>> THEN meta
    ELSE IF meta.ty = "OrderedDict"
            /\ \E i \in 1..Len(meta.v) : meta.v[i][1] = PyStr(Head(keys))
    THEN Follow(Lookup(meta, PyStr(Head(keys))), Tail(keys), default)
    ELSE default

\* C8: get_metadata(path, default) on a metadata tree of strings, booleans,
\* sequences and ordered maps returns the value the path's keys lead to, and
\* default as soon as a key is not a key of the value reached, whatever
\* that value is.
C8_GetMetadata ==
    (op = "get_metadata" /\ IsMetaTree(arg.self.v.metadata))
      => ret = Follow(arg.self.v.metadata, arg.keys, arg.default)

\* C9: encoding a Doc returns [{"unMeta": m}, blocks], m mapping each
\* metadata key to its metawalk encoding and blocks being the encoded forms
\* of the document's blocks, in order.
C9_DocEncoding ==
    (op = "to_json" /\ arg.ty = "Doc" /\ ~IsRaise(ret))
      => /\ Len(ret.v) = 2
         /\ JsonText(ret.v[1])
              = MapOf("unMeta", JsonText(MetaItems(arg.v.metadata)))
         /\ ret.v[2] = JsonList(arg.v.items)

\* C10: to_json of a node or a Doc its constructor accepted never fails.
C10_EncodingTotal == op = "to_json" => ~IsRaise(ret)

\* the kinds that have both children and validated fields
ChildrenAndFields ==
    {"Header", "Quoted", "OrderedList", "Link", "Image", "Table", "Cite"}

\* C11: for every kind that has both children and validated fields, a
\* construction request with a child of the wrong kind and an enumerated or
\* numeric field outside its legal set fails with the capability mismatch
\* of validate_item, not with the field error.
C11_CapabilityFirst ==
    (op = "new" /\ arg.cls \in ChildrenAndFields /\ MisplacedChild(arg)
       /\ ~LegalFields(arg.cls, arg.kw))
      => ret = Raise("AssertionError", "validate_item")

\* a list all of whose members are Blocks (or Inlines)
AllOfKind(x, has_blocks) ==
    /\ x.ty = "list"
    /\ \A i \in 1..Len(x.v) :
          IF has_blocks THEN IsBlock(x.v[i]) ELSE IsInline(x.v[i])
\* a list of lists of Blocks
BlockCells(x) ==
    x.ty = "list" /\ \A i \in 1..Len(x.v) : AllOfKind(x.v[i], TRUE)
\* a (term, definitions) pair of a definition list
DefinitionPair(x) ==
    /\ x.ty = "tuple" /\ Len(x.v) = 2
    /\ AllOfKind(x.v[1], FALSE)
    /\ BlockCells(x.v[2])
\* a structurally well-formed request for a Table, a Citation or a
\* DefinitionList
WellFormed(request) ==
    CASE request.cls = "Table" ->
            /\ Len(request.args.v) >= 1
            /\ \A i \in 1..Len(request.args.v) : BlockCells(request.args.v[i])
            /\ BlockCells(request.kw.header)
            /\ \A i \in 1..Len(request.args.v) :
                  Len(request.args.v[i].v) = Len(request.kw.header.v)
            /\ AllOfKind(request.kw.caption, FALSE)
            /\ request.kw.alignment.ty = "list"
            /\ request.kw.width.ty = "list"
            /\ LegalAlignment(request.kw.alignment)
            /\ LegalWidth(request.kw.width)
            /\ Len(request.kw.alignment.v) = Len(request.kw.header.v)
            /\ Len(request.kw.width.v) = Len(request.kw.header.v)
      [] request.cls = "Citation" ->
            /\ request.kw.citationMode \in Strs(CITATION_MODE)
            /\ AllOfKind(request.kw.citationPrefix, FALSE)
            /\ AllOfKind(request.kw.citationSuffix, FALSE)
      [] request.cls = "DefinitionList" ->
            /\ Len(request.args.v) >= 1
            /\ \A i \in 1..Len(request.args.v) :
                  DefinitionPair(request.args.v[i])
      [] OTHER -> FALSE

\* C12: every structurally well-formed construction request for a Table, a
\* Citation or a DefinitionList succeeds and returns a node of that kind.
C12_WellFormedBuilt ==
    (op = "new" /\ WellFormed(arg)) => ret.ty = arg.cls

\* the kinds whose wire content holds an attribute triple, and the triple
\* of the tagged wire value w
AttributedKinds ==
    {"Header", "Div", "Span", "Link", "Image", "Code", "CodeBlock"}
AttributeTriple(w) ==
    IF TagOf(w) = "Header" THEN w.v[2][2].v[2] ELSE w.v[2][2].v[1]
\* the ordered map of the [key, value] pairs of a triple
PairsMap(pairs) ==
    OrderedDictOfPairs([i \in 1..Len(pairs.v) |->
                          <<pairs.v[i].v[1], pairs.v[i].v[2]>>])

\* C13: decoding the wire value of an attributed kind whose attribute
\* triple is [identifier, classes, pairs] yields a node of that kind with
\* that identifier, those classes, and an attributes mapping holding
\* exactly those pairs in order.
C13_AttributesDecoded ==
    (op = "loads" /\ arg \in ElementWires /\ TagOf(arg) \in AttributedKinds)
      => /\ ret.ty = TagOf(arg)
         /\ ret.v.identifier = AttributeTriple(arg).v[1]
         /\ ret.v.classes = AttributeTriple(arg).v[2]
         /\ ret.v.attributes = PairsMap(AttributeTriple(arg).v[3])

\* the entries of the ordered map m, each value decoded, as the pairs the
\* decoder is handed
DecodedEntries(m) ==
    [i \in 1..Len(m.v) |-> <<m.v[i][1], loads(m.v[i][2])>>]

\* C14: decoding a non-tagged ordered map returns its entries unchanged and
\* in order, and decoding {"t": "MetaMap", "c": m} returns an ordered map
\* equal to m entry for entry, whatever the string keys of m are, "t", "c"
\* and "unMeta" included.
C14_MapsUnchanged ==
    \A m \in MapWires :
        /\ (op = "loads" /\ arg = m)
             => ret = PyList([i \in 1..Len(m.v) |->
                                PyTuple(DecodedEntries(m)[i])])
        /\ (op = "loads" /\ arg = Tagged("MetaMap", m))
             => ret = OrderedDictOfPairs(DecodedEntries(m))

====
